---- MODULE Spec2Model ----
(***************************************************************************)
(* A model of oauth2_client: the CredentialManager (token lifecycle and    *)
(* bearer requests, credentials_manager.py) and the authorization-code     *)
(* flow with its local callback server (credentials_manager.py and         *)
(* http_server.py).                                                        *)
(*                                                                         *)
(* Python values are modelled as follows.  None, and a key absent from a   *)
(* dict or from a JSON object, is the string "None".  An HTTP response is  *)
(* a record holding its status, its raw text and what response.json()      *)
(* makes of that text.  An exception is a record holding its type and,     *)
(* for OAuthError, its three attributes.  The session is a record telling  *)
(* whether a requests.Session exists and which bearer token its           *)
(* Authorization header holds ("Bearer <t>" is modelled by <t>).           *)
(***************************************************************************)
EXTENDS Integers, Sequences, FiniteSets, TLC

VARIABLES
    _session,                    \* CredentialManager._session
    refresh_token,               \* CredentialManager.refresh_token
    authorization_code_context,  \* CredentialManager.authorization_code_context
    servers,                     \* the callback servers, by the port they bind
    caller,                      \* the calling thread inside wait_and_terminate_...
    last,                        \* the last completed operation, as its caller saw it
    parse                        \* a call of read_request_parameters: its input and result

vars == <<_session, refresh_token, authorization_code_context, servers, caller, last,
          parse>>

None == "None"

\* http.HTTPStatus
OK == 200
UNAUTHORIZED == 401
INTERNAL_SERVER_ERROR == 500

(***************************************************************************)
(* Exceptions                                                              *)
(***************************************************************************)
NoExc == [type |-> "none", status_code |-> 0, error |-> None, error_description |-> None]

OAuthError(status_code, error, error_description) ==
    [type |-> "OAuthError", status_code |-> status_code, error |-> error,
     error_description |-> error_description]

PyError(type) ==
    [type |-> type, status_code |-> 0, error |-> None, error_description |-> None]

(***************************************************************************)
(* HTTP responses.  kind is what response.json() gives: "object" (a JSON   *)
(* object, whose members are the four fields, "None" when absent),         *)
(* "json_other" (valid JSON that is no object, here a list) or "text"      *)
(* (no valid JSON: response.json() raises a ValueError).                   *)
(***************************************************************************)
Body(kind, text, error, error_description, access_token, refresh) ==
    [kind |-> kind, text |-> text, error |-> error,
     error_description |-> error_description,
     access_token |-> access_token, refresh_token |-> refresh]

Response(status_code, body) ==
    [status_code |-> status_code, kind |-> body.kind, text |-> body.text,
     error |-> body.error, error_description |-> body.error_description,
     access_token |-> body.access_token, refresh_token |-> body.refresh_token]

NoResponse == Response(0, Body("text", "", None, None, None, None))

\* The bodies the token endpoint answers with.
TokenBodies ==
    { Body("object", "{access_token:a1,refresh_token:r1}", None, None, "a1", "r1"),
      Body("object", "{access_token:a2,refresh_token:r2}", None, None, "a2", "r2"),
      Body("object", "{access_token:a2}", None, None, "a2", None),
      Body("object", "{access_token:}", None, None, "", None),
      Body("object", "{refresh_token:r2}", None, None, None, "r2"),
      Body("object", "{error:invalid_grant,error_description:expired}",
           "invalid_grant", "expired", None, None),
      Body("object", "{error:invalid_client}", "invalid_client", None, None, None),
      Body("json_other", "[]", None, None, None, None),
      Body("text", "Unauthorized", None, None, None, None) }

TokenStatuses == {OK, 400, UNAUTHORIZED}

TokenResponses == { Response(s, b) : s \in TokenStatuses, b \in TokenBodies }

\* The bodies and statuses a protected resource answers with.
ApiBodies ==
    { Body("object", "{error:invalid_token}", "invalid_token", None, None, None),
      Body("object", "{error:insufficient_scope}", "insufficient_scope", None, None, None),
      Body("json_other", "[]", None, None, None, None),
      Body("text", "hello", None, None, None, None) }

ApiStatuses == {OK, UNAUTHORIZED}

ApiResponses == { Response(s, b) : s \in ApiStatuses, b \in ApiBodies }

RefreshTokens == {"r1", "r2"}

Methods == {"GET", "POST", "PUT", "PATCH", "DELETE"}

(***************************************************************************)
(* The session                                                             *)
(***************************************************************************)
NoSession == [exists |-> FALSE, Authorization |-> None]

\* What the manager holds of tokens: the two fields every grant mutates.
Tokens(session, refresh) == [_session |-> session, refresh_token |-> refresh]

\* The result of a call: the manager's token fields after it, and the
\* exception it raised (NoExc when it returned).
Outcome(m, exc) == [m |-> m, exc |-> exc]

\* CredentialManager._access_token (getter)
_access_token(session) ==
    IF session.exists THEN session.Authorization ELSE None

\* A slip in the setter: the header is set only on a session it creates.
set_access_token_once(session, access_token) ==
    IF session.exists THEN session
    ELSE IF access_token # ""
         THEN [exists |-> TRUE, Authorization |-> access_token]
         ELSE [exists |-> TRUE, Authorization |-> None]

\* CredentialManager._access_token (setter)
set_access_token(session, access_token) ==
    LET s == IF session.exists THEN session
             ELSE [exists |-> TRUE, Authorization |-> None]
    IN  IF access_token # "" THEN [s EXCEPT !.Authorization = access_token]
        ELSE s

\* CredentialManager._handle_bad_response: the exception it raises.  The
\* try block raises OAuthError for a JSON object, ValueError when the body
\* is no JSON, AttributeError when the JSON has no .get; the handler
\* replaces an OAuthError by unknown_error and re-raises anything else.
_handle_bad_response(response) ==
    LET ex == CASE response.kind = "text" -> PyError("ValueError")
                [] response.kind = "json_other" -> PyError("AttributeError")
                [] OTHER -> OAuthError(response.status_code, response.error,
                                       response.error_description)
    IN  IF ex.type = "OAuthError"
        THEN OAuthError(response.status_code, "unknown_error", response.text)
        ELSE ex

\* A slip in the mandatory/optional rule: the refresh token is read with
\* .get whatever the grant.
_process_token_response_optional(m, token_response, refresh_token_mandatory) ==
    LET m1 == [m EXCEPT !.refresh_token = token_response.refresh_token]
    IN  IF token_response.access_token = None
        THEN Outcome(m1, PyError("KeyError"))
        ELSE Outcome([m1 EXCEPT !._session =
                          set_access_token(m1._session, token_response.access_token)],
                     NoExc)

\* CredentialManager._process_token_response, on a JSON object: the refresh
\* token is assigned first, the access token second.
_process_token_response(m, token_response, refresh_token_mandatory) ==
    IF refresh_token_mandatory /\ token_response.refresh_token = None
    THEN Outcome(m, PyError("KeyError"))
    ELSE LET m1 == [m EXCEPT !.refresh_token = token_response.refresh_token]
         IN  IF token_response.access_token = None
             THEN Outcome(m1, PyError("KeyError"))
             ELSE Outcome([m1 EXCEPT !._session =
                               set_access_token(m1._session, token_response.access_token)],
                          NoExc)

\* CredentialManager._token_request, given the token endpoint's response.
_token_request(m, response, refresh_token_mandatory) ==
    IF response.status_code # OK
    THEN Outcome(m, _handle_bad_response(response))
    ELSE CASE response.kind = "text" -> Outcome(m, PyError("ValueError"))
           [] response.kind = "json_other" ->
                Outcome(m, IF refresh_token_mandatory THEN PyError("TypeError")
                           ELSE PyError("AttributeError"))
           [] OTHER -> _process_token_response(m, response, refresh_token_mandatory)

\* CredentialManager._refresh_token
_refresh_token(m, response) ==
    LET r == _token_request(m, response, FALSE)
    IN  IF r.exc.type = "OAuthError" /\ r.exc.status_code = UNAUTHORIZED
        THEN Outcome(Tokens(NoSession, None), r.exc)
        ELSE r

\* CredentialManager._is_token_expired: "True", "False", or the exception
\* type that escapes it (json_data.get on a JSON list).
_is_token_expired(response) ==
    IF response.status_code = UNAUTHORIZED
    THEN CASE response.kind = "text" -> "False"
           [] response.kind = "json_other" -> "AttributeError"
           [] OTHER -> IF response.error = "invalid_token" THEN "True" ELSE "False"
    ELSE "False"

(***************************************************************************)
(* Bearer requests                                                         *)
(***************************************************************************)
\* One HTTP request as the network sees it: where it goes and the credential
\* it carries (the bearer token of the session, or the refresh token posted).
ApiCall(m) == [to |-> "api", credential |-> _access_token(m._session)]

TokenCall(refresh) == [to |-> "token", credential |-> refresh]

\* What a bearer request gives its caller: the token fields after it, the
\* exception raised or the response returned, the requests it sent and the
\* responses it received for them, in order.
Reply(m, exc, value, sent, received) ==
    [m |-> m, exc |-> exc, value |-> value, sent |-> sent, received |-> received]

\* A slip in the retry: the first response is returned after the refresh and
\* the call is not made again.
_bearer_request_no_retry(m, r1, tr, r2) ==
    IF ~m._session.exists
    THEN Reply(m, PyError("AttributeError"), NoResponse, <<>>, <<>>)
    ELSE LET expired == IF m.refresh_token # None THEN _is_token_expired(r1)
                        ELSE "False"
         IN  CASE expired = "AttributeError" ->
                    Reply(m, PyError("AttributeError"), NoResponse,
                          <<ApiCall(m)>>, <<r1>>)
               [] expired = "True" ->
                    LET r == _refresh_token(m, tr)
                    IN  Reply(r.m, r.exc, IF r.exc # NoExc THEN NoResponse ELSE r1,
                              <<ApiCall(m), TokenCall(m.refresh_token)>>,
                              <<r1, tr>>)
               [] OTHER -> Reply(m, NoExc, r1, <<ApiCall(m)>>, <<r1>>)

\* CredentialManager._bearer_request, given the responses the network would
\* give to the first call (r1), to a token request (tr) and to a retry (r2).
_bearer_request(m, r1, tr, r2) ==
    IF ~m._session.exists
    THEN Reply(m, PyError("AttributeError"), NoResponse, <<>>, <<>>)
    ELSE LET expired == IF m.refresh_token # None THEN _is_token_expired(r1)
                        ELSE "False"
         IN  CASE expired = "AttributeError" ->
                    Reply(m, PyError("AttributeError"), NoResponse,
                          <<ApiCall(m)>>, <<r1>>)
               [] expired = "True" ->
                    LET r == _refresh_token(m, tr)
                    IN  IF r.exc # NoExc
                        THEN Reply(r.m, r.exc, NoResponse,
                                   <<ApiCall(m), TokenCall(m.refresh_token)>>,
                                   <<r1, tr>>)
                        ELSE Reply(r.m, NoExc, r2,
                                   <<ApiCall(m), TokenCall(m.refresh_token), ApiCall(r.m)>>,
                                   <<r1, tr, r2>>)
               [] OTHER -> Reply(m, NoExc, r1, <<ApiCall(m)>>, <<r1>>)

(***************************************************************************)
(* The record of the last completed operation                              *)
(***************************************************************************)
NoContext == [active |-> FALSE, state |-> None, port |-> 0]

NoUri == [scheme |-> None, port |-> 0]

\* dict keys the wait operation reads; a value of "None" is an absent key.
Parameters(error, error_description, code, state) ==
    [error |-> error, error_description |-> error_description, code |-> code,
     state |-> state]

EmptyParameters == Parameters(None, None, None, None)

\* op: the operation; method, arg, uri: its inputs; pre, pre_context:
\* the manager's fields when it was called; sent, received: the HTTP requests
\* it made and their responses; exc: the exception it raised (NoExc when it
\* returned); value, code: the response or the code it returned; timed_out,
\* seen, seen_end, read: for the wait operation, whether the wait ended with
\* the event unset, the redirects delivered when the wait ended and when the
\* last parameter was read, and the four values read.
NoRecord ==
    [op |-> "none", method |-> None, arg |-> None, uri |-> NoUri,
     pre |-> Tokens(NoSession, None),
     pre_context |-> NoContext, sent |-> <<>>, received |-> <<>>,
     exc |-> NoExc, value |-> NoResponse, code |-> None,
     timed_out |-> FALSE, seen |-> <<>>, seen_end |-> <<>>,
     read |-> EmptyParameters]

Record(op, method, arg, pre, pre_context, sent, received, exc, value, code) ==
    [NoRecord EXCEPT !.op = op, !.method = method, !.arg = arg, !.pre = pre,
                     !.pre_context = pre_context, !.sent = sent,
                     !.received = received, !.exc = exc, !.value = value,
                     !.code = code]

Manager == Tokens(_session, refresh_token)

AuthUnchanged == UNCHANGED <<authorization_code_context, servers, caller, parse>>

\* A grant: one token request, then the manager's fields and the record.
Grant(op, arg, response, r) ==
    /\ _session' = r.m._session
    /\ refresh_token' = r.m.refresh_token
    /\ last' = Record(op, None, arg, Manager, authorization_code_context,
                      <<TokenCall(arg)>>, <<response>>, r.exc, NoResponse, None)
    /\ AuthUnchanged

\* CredentialManager.init_with_authorize_code
init_with_authorize_code ==
    \E response \in TokenResponses :
        Grant("init_with_authorize_code", None, response,
              _token_request(Manager, response, TRUE))

\* CredentialManager.init_with_user_credentials
init_with_user_credentials ==
    \E response \in TokenResponses :
        Grant("init_with_user_credentials", None, response,
              _token_request(Manager, response, TRUE))

\* CredentialManager.init_with_client_credentials
init_with_client_credentials ==
    \E response \in TokenResponses :
        Grant("init_with_client_credentials", None, response,
              _token_request(Manager, response, FALSE))

\* CredentialManager.init_with_token: the argument is kept when the grant
\* returned and left no refresh token.
init_with_token_result(m, refresh, response) ==
    LET r == _token_request(m, response, FALSE)
    IN  IF r.exc = NoExc /\ r.m.refresh_token = None
        THEN Outcome([r.m EXCEPT !.refresh_token = refresh], NoExc)
        ELSE r

init_with_token ==
    \E refresh \in RefreshTokens, response \in TokenResponses :
        Grant("init_with_token", refresh, response,
              init_with_token_result(Manager, refresh, response))

\* CredentialManager.get / post / put / patch / delete
\* The network answers only the requests that are made: a response is drawn
\* for the token request and for the retry only when the call gets there.
bearer_request_done(method, r) ==
    /\ _session' = r.m._session
    /\ refresh_token' = r.m.refresh_token
    /\ last' = Record("bearer_request", method, None, Manager,
                      authorization_code_context, r.sent, r.received,
                      r.exc, r.value, None)
    /\ AuthUnchanged

bearer_request ==
    \E method \in Methods, r1 \in ApiResponses :
        IF Len(_bearer_request(Manager, r1, NoResponse, NoResponse).sent) < 2
        THEN bearer_request_done(method,
                 _bearer_request(Manager, r1, NoResponse, NoResponse))
        ELSE \E tr \in TokenResponses :
                IF Len(_bearer_request(Manager, r1, tr, NoResponse).sent) < 3
                THEN bearer_request_done(method,
                         _bearer_request(Manager, r1, tr, NoResponse))
                ELSE \E r2 \in ApiResponses :
                        bearer_request_done(method,
                            _bearer_request(Manager, r1, tr, r2))

(***************************************************************************)
(* The callback server (http_server.py) and the authorization-code flow    *)
(***************************************************************************)
MaxRequests == 2

Ports == {8080, 8081}

NoPort == 0

\* Redirect URIs as urlparse sees them: the scheme and the port (NoPort when
\* the URI names none, for which urlparse gives None).
RedirectUris ==
    { [scheme |-> "http", port |-> 8080], [scheme |-> "http", port |-> 8081],
      [scheme |-> "http", port |-> NoPort], [scheme |-> "https", port |-> 8080] }

\* The state values a caller gives to init_authorize_code_process.
States == {"S"}

(***************************************************************************)
(* Request paths.  A path is the sequence of its lexemes: the separators   *)
(* "?", "&" and "=", percent escapes, and runs of other characters.        *)
(***************************************************************************)
\* str.find: the index of the first occurrence, 0 when there is none.
find(path, c) ==
    IF \E i \in DOMAIN path : path[i] = c
    THEN CHOOSE i \in DOMAIN path :
            path[i] = c /\ \A j \in 1..(i - 1) : path[j] # c
    ELSE 0

\* str.split
RECURSIVE split(_, _)
split(str, sep) ==
    LET i == find(str, sep)
    IN  IF i = 0 THEN <<str>>
        ELSE <<SubSeq(str, 1, i - 1)>> \o split(SubSeq(str, i + 1, Len(str)), sep)

\* The string a sequence of lexemes spells.
RECURSIVE text(_)
text(str) == IF str = <<>> THEN "" ELSE str[1] \o text(Tail(str))

\* urllib.parse.unquote.  "<e-acute>" stands for the character U+00E9, whose
\* UTF-8 bytes are C3 A9, and "<U+FFFD>" for the replacement character.
RECURSIVE unquote(_)
unquote(str) ==
    IF str = <<>> THEN ""
    ELSE IF str[1] = "%C3" /\ Len(str) >= 2 /\ str[2] = "%A9"
    THEN "<e-acute>" \o unquote(Tail(Tail(str)))
    ELSE (CASE str[1] = "%69" -> "i"
            [] str[1] = "%20" -> " "
            [] str[1] = "%3D" -> "="
            [] str[1] = "%26" -> "&"
            [] str[1] = "%25" -> "%"
            [] str[1] = "%3F" -> "?"
            [] str[1] \in {"%C3", "%A9"} -> "<U+FFFD>"
            [] OTHER -> str[1]) \o unquote(Tail(str))

\* urllib.parse.quote(v, safe="~()*!.'") on a value given as the sequence of
\* its characters: letters, digits, "_.-~" and the safe characters are kept,
\* any other character becomes the escapes of its UTF-8 bytes.
RECURSIVE quote(_)
quote(v) ==
    IF v = <<>> THEN <<>>
    ELSE (CASE v[1] = " " -> <<"%20">>
            [] v[1] = "=" -> <<"%3D">>
            [] v[1] = "&" -> <<"%26">>
            [] v[1] = "%" -> <<"%25">>
            [] v[1] = "?" -> <<"%3F">>
            [] v[1] = "<e-acute>" -> <<"%C3", "%A9">>
            [] OTHER -> <<v[1]>>) \o quote(Tail(v))

\* A slip in the test of a pair: a segment with more than one "=" is kept,
\* cut at the second.
RECURSIVE read_segments_lenient(_, _)
read_segments_lenient(segments, params_received) ==
    IF segments = <<>> THEN params_received
    ELSE LET param_split == split(segments[1], "=")
         IN  read_segments_lenient(Tail(segments),
                 IF Len(param_split) >= 2
                 THEN (text(param_split[1]) :> unquote(param_split[2]))
                      @@ params_received
                 ELSE params_received)

\* A slip in the loop: a key keeps the value of its first segment.
RECURSIVE read_segments_first_wins(_, _)
read_segments_first_wins(segments, params_received) ==
    IF segments = <<>> THEN params_received
    ELSE LET param_split == split(segments[1], "=")
         IN  read_segments_first_wins(Tail(segments),
                 IF Len(param_split) = 2
                 THEN params_received
                      @@ (text(param_split[1]) :> unquote(param_split[2]))
                 ELSE params_received)

\* read_request_parameters, the loop of line 34-37 over the segments: a
\* segment with exactly one "=" sets its key, replacing an earlier value.
RECURSIVE read_segments(_, _)
read_segments(segments, params_received) ==
    IF segments = <<>> THEN params_received
    ELSE LET param_split == split(segments[1], "=")
         IN  read_segments(Tail(segments),
                 IF Len(param_split) = 2
                 THEN (text(param_split[1]) :> unquote(param_split[2]))
                      @@ params_received
                 ELSE params_received)

\* The lenient loop in read_request_parameters.
read_request_parameters_lenient(path) ==
    LET idx == find(path, "?")
    IN  IF idx > 0 /\ idx < Len(path)
        THEN read_segments_lenient(split(SubSeq(path, idx + 1, Len(path)), "&"), <<>>)
        ELSE <<>>

\* read_request_parameters: the dict, as a function from keys to values.
read_request_parameters(path) ==
    LET idx == find(path, "?")
    IN  IF idx > 0 /\ idx < Len(path)
        THEN read_segments(split(SubSeq(path, idx + 1, Len(path)), "&"), <<>>)
        ELSE <<>>

\* What the context's dict keeps of a mapping: the four keys the wait reads.
ToParameters(mapping) ==
    [k \in DOMAIN EmptyParameters |->
        IF k \in DOMAIN mapping THEN mapping[k] ELSE None]

\* The paths of the GET requests that reach a callback server.
RedirectPaths ==
    { <<"/cb", "?", "code", "=", "c1", "&", "state", "=", "S">>,
      <<"/cb", "?", "state", "=", "X", "&", "code", "=", "c2", "&", "junk">>,
      <<"/cb", "?", "state", "=", "S", "&", "code", "=", "c", "=", "1">>,
      <<"/cb", "?", "error", "=", "access_denied", "&", "error_description",
        "=", "den", "%69", "ed", "&", "state", "=", "S">>,
      <<"/">> }

\* The parameters the callback registers for these paths.
RedirectParameters ==
    { ToParameters(read_request_parameters(path)) : path \in RedirectPaths }

\* What do_GET does with a request: the status line, the Content-type header
\* and the body it writes (the text around json.dumps(params_received)), the
\* arguments of each call of the callback, and the order of the write, the
\* callback and the flush.
Answer(path, params_received) ==
    [path |-> path, status |-> OK, content_type |-> "text/plain",
     body |-> <<"Response received", params_received,
                ".Result was transmitted to the original thread. You can close this window.">>,
     callback |-> <<params_received>>,
     events |-> <<"write", "callback", "flush">>]

\* A server: its listening socket, its thread (none, created, serving,
\* in_callback: inside register_parameters after update and before set,
\* exited), the two flags of socketserver.BaseServer, and the context's
\* AuthorizeResponseCallback it feeds: the dict (results), the Event
\* (response) and, as history, the parameters delivered in order and what
\* do_GET did with each request (answered).
NoServer ==
    [socket |-> "closed", thread |-> "none", shutdown_request |-> FALSE,
     is_shut_down |-> FALSE, results |-> EmptyParameters, response |-> FALSE,
     delivered |-> <<>>, answered |-> <<>>]

\* start_http_server: the socket is bound and listening, the thread is
\* started and has not yet entered serve_forever.
start_http_server == [NoServer EXCEPT !.socket = "open", !.thread = "created"]

\* dict.update
update(results, parameters) ==
    [k \in DOMAIN results |->
        IF parameters[k] # None THEN parameters[k] ELSE results[k]]

\* The number of requests delivered to the servers that exist.
RECURSIVE Delivered(_)
Delivered(ports) ==
    IF ports = {} THEN 0
    ELSE LET p == CHOOSE q \in ports : TRUE
         IN  Len(servers[p].delivered) + Delivered(ports \ {p})

DeliveredTotal == Delivered(Ports)

IdleCaller ==
    [pc |-> "idle", timeout |-> FALSE, set_at_call |-> FALSE,
     timed_out |-> FALSE, seen |-> 0,
     seen_end |-> 0, read |-> EmptyParameters, exc |-> NoExc, code |-> None]

TokensUnchanged == UNCHANGED <<_session, refresh_token, parse>>

\* CredentialManager.init_authorize_code_process: the exception it raises
\* for a redirect URI, given the servers that hold a port.
init_authorize_code_process_exc(uri) ==
    CASE uri.scheme = "https" -> PyError("NotImplementedError")
      [] uri.port = NoPort -> PyError("TypeError")
      [] servers[uri.port].socket = "open" -> PyError("OSError")
      [] OTHER -> NoExc

\* A slip in init_authorize_code_process: the context is dropped before the
\* server is started, so a call that raises leaves the manager without one.
init_authorize_code_process_drops_context ==
    /\ caller.pc = "idle"
    /\ \E uri \in RedirectUris :
        LET exc == init_authorize_code_process_exc(uri)
            done(state) ==
                last' = [NoRecord EXCEPT !.op = "init_authorize_code_process",
                                        !.arg = state, !.uri = uri,
                                        !.pre = Manager,
                                        !.pre_context = authorization_code_context,
                                        !.exc = exc]
        IN  IF exc = NoExc
            THEN \E state \in States :
                    /\ servers' = [servers EXCEPT ![uri.port] = start_http_server]
                    /\ authorization_code_context' =
                         [active |-> TRUE, state |-> state, port |-> uri.port]
                    /\ done(state)
            ELSE /\ UNCHANGED servers
                 /\ authorization_code_context' = NoContext
                 /\ done(None)
    /\ UNCHANGED caller
    /\ TokensUnchanged

\* CredentialManager.init_authorize_code_process.  The state argument is
\* used only once the server has started; the record of a call that raised
\* before does not keep it.
init_authorize_code_process ==
    /\ caller.pc = "idle"
    /\ \E uri \in RedirectUris :
        LET exc == init_authorize_code_process_exc(uri)
            done(state) ==
                last' = [NoRecord EXCEPT !.op = "init_authorize_code_process",
                                        !.arg = state, !.uri = uri,
                                        !.pre = Manager,
                                        !.pre_context = authorization_code_context,
                                        !.exc = exc]
        IN  IF exc = NoExc
            THEN \E state \in States :
                    /\ servers' = [servers EXCEPT ![uri.port] = start_http_server]
                    /\ authorization_code_context' =
                         [active |-> TRUE, state |-> state, port |-> uri.port]
                    /\ done(state)
            ELSE /\ UNCHANGED <<servers, authorization_code_context>>
                 /\ done(None)
    /\ UNCHANGED caller
    /\ TokensUnchanged

\* The context's server record.
context_server == servers[authorization_code_context.port]

\* A slip at the start of the wait: the event is cleared, and with it the
\* wake-up of a request handled before the call.
wait_call_clears_event ==
    /\ caller.pc = "idle"
    /\ IF ~authorization_code_context.active
       THEN /\ last' = [NoRecord EXCEPT
                           !.op = "wait_and_terminate_authorize_code_process",
                           !.pre = Manager,
                           !.pre_context = authorization_code_context,
                           !.exc = PyError("Exception")]
            /\ UNCHANGED caller
       ELSE \E timeout \in BOOLEAN :
            /\ caller' = [IdleCaller EXCEPT
                             !.pc = "waiting", !.timeout = timeout,
                             !.set_at_call = ~timeout /\ context_server.response]
            /\ last' = NoRecord
    /\ servers' = IF authorization_code_context.active
                  THEN [servers EXCEPT
                          ![authorization_code_context.port].response = FALSE]
                  ELSE servers
    /\ UNCHANGED authorization_code_context
    /\ TokensUnchanged

\* wait_and_terminate_authorize_code_process, line 230-233: the check of the
\* context, then the call of results.wait(timeout).
wait_call ==
    /\ caller.pc = "idle"
    /\ IF ~authorization_code_context.active
       THEN /\ last' = [NoRecord EXCEPT
                           !.op = "wait_and_terminate_authorize_code_process",
                           !.pre = Manager,
                           !.pre_context = authorization_code_context,
                           !.exc = PyError("Exception")]
            /\ UNCHANGED caller
       ELSE \E timeout \in BOOLEAN :
            /\ caller' = [IdleCaller EXCEPT
                             !.pc = "waiting", !.timeout = timeout,
                             !.set_at_call = ~timeout /\ context_server.response]
            /\ last' = NoRecord
    /\ UNCHANGED <<servers, authorization_code_context>>
    /\ TokensUnchanged

\* AuthorizeResponseCallback.wait: Event.wait returns when the event is
\* set, or at any time when a timeout was given (timed_out: it returned with
\* the event unset).  The timeout is not used after it.
wait_return ==
    /\ caller.pc = "waiting"
    /\ context_server.response \/ caller.timeout
    /\ caller' = [caller EXCEPT !.pc = "get_error", !.timeout = FALSE,
                                !.timed_out = ~context_server.response,
                                !.seen = Len(context_server.delivered)]
    /\ UNCHANGED <<servers, authorization_code_context, last>>
    /\ TokensUnchanged

\* A slip in the order of the checks: the state is compared before the error
\* parameter is looked at.
authorize_code_result_state_first(read, expected) ==
    CASE read.state # expected ->
           [exc |-> OAuthError(INTERNAL_SERVER_ERROR, "invalid_state",
                               "Sate returned does not match"),
            code |-> None]
      [] read.error # None ->
           [exc |-> OAuthError(UNAUTHORIZED, read.error,
                               IF read.error_description = None THEN ""
                               ELSE read.error_description),
            code |-> None]
      [] read.code = None ->
           [exc |-> OAuthError(INTERNAL_SERVER_ERROR, "no_code", "No code returned"),
            code |-> None]
      [] OTHER -> [exc |-> NoExc, code |-> read.code]

\* The decision of wait_and_terminate_authorize_code_process (line 240-254)
\* on the four values read and the context's state.
authorize_code_result(read, expected) ==
    CASE read.error # None ->
           [exc |-> OAuthError(UNAUTHORIZED, read.error,
                               IF read.error_description = None THEN ""
                               ELSE read.error_description),
            code |-> None]
      [] read.state # expected ->
           [exc |-> OAuthError(INTERNAL_SERVER_ERROR, "invalid_state",
                               "Sate returned does not match"),
            code |-> None]
      [] read.code = None ->
           [exc |-> OAuthError(INTERNAL_SERVER_ERROR, "no_code", "No code returned"),
            code |-> None]
      [] OTHER -> [exc |-> NoExc, code |-> read.code]

\* One results.get(key): line 234, 235, 238 and 239, in this order; after the
\* last one the decision is taken and the finally block is entered.  seen_end
\* counts what had been delivered by then.
get(key, pc, next) ==
    /\ caller.pc = pc
    /\ LET read == [caller.read EXCEPT ![key] = context_server.results[key]]
           r == authorize_code_result(read, authorization_code_context.state)
       IN  caller' = IF next = "finally"
                     THEN [caller EXCEPT !.pc = next, !.read = read,
                                         !.exc = r.exc, !.code = r.code,
                                         !.seen_end = Len(context_server.delivered)]
                     ELSE [caller EXCEPT !.pc = next, !.read = read]
    /\ UNCHANGED <<servers, authorization_code_context, last>>
    /\ TokensUnchanged

get_error == get("error", "get_error", "get_error_description")

get_error_description == get("error_description", "get_error_description", "get_code")

get_code == get("code", "get_code", "get_state")

get_state == get("state", "get_state", "finally")

\* stop_http_server: httpd.shutdown() sets the request flag ...
stop_http_server ==
    /\ caller.pc = "finally"
    /\ servers' = [servers EXCEPT
                     ![authorization_code_context.port].shutdown_request = TRUE]
    /\ caller' = [caller EXCEPT !.pc = "shutdown"]
    /\ UNCHANGED <<authorization_code_context, last>>
    /\ TokensUnchanged

\* A slip in the finally block: the context is not cleared.
wait_done_keeps_context ==
    /\ caller.pc = "shutdown"
    /\ context_server.is_shut_down
    /\ last' = [NoRecord EXCEPT
                   !.op = "wait_and_terminate_authorize_code_process",
                   !.pre = Manager,
                   !.pre_context = authorization_code_context,
                   !.exc = caller.exc, !.code = caller.code,
                   !.timed_out = caller.timed_out,
                   !.seen = SubSeq(context_server.delivered, 1, caller.seen),
                   !.seen_end = SubSeq(context_server.delivered, 1, caller.seen_end),
                   !.read = caller.read]
    /\ caller' = IdleCaller
    /\ UNCHANGED <<servers, authorization_code_context>>
    /\ TokensUnchanged

\* ... and waits for is_shut_down; then line 257 clears the context and the
\* operation returns the code or raises.
wait_done ==
    /\ caller.pc = "shutdown"
    /\ context_server.is_shut_down
    /\ authorization_code_context' = NoContext
    /\ last' = [NoRecord EXCEPT
                   !.op = "wait_and_terminate_authorize_code_process",
                   !.pre = Manager,
                   !.pre_context = authorization_code_context,
                   !.exc = caller.exc, !.code = caller.code,
                   !.timed_out = caller.timed_out,
                   !.seen = SubSeq(context_server.delivered, 1, caller.seen),
                   !.seen_end = SubSeq(context_server.delivered, 1, caller.seen_end),
                   !.read = caller.read]
    /\ caller' = IdleCaller
    /\ UNCHANGED servers
    /\ TokensUnchanged

AuthFrame == UNCHANGED <<authorization_code_context, caller, last>> /\ TokensUnchanged

\* The server thread enters serve_forever.
serve_forever ==
    \E p \in Ports :
        /\ servers[p].thread = "created"
        /\ servers' = [servers EXCEPT ![p].thread = "serving",
                                      ![p].is_shut_down = FALSE]
        /\ AuthFrame

\* Handler.do_GET up to the callback's self.update(parameters): the loop
\* found no shutdown request, accepted a GET and answered it.  The requests
\* are the provider's redirects of the flow in progress: they go to the port
\* of the manager's context.
do_GET ==
    \E p \in Ports, path \in RedirectPaths :
        LET params_received == read_request_parameters(path)
            parameters == ToParameters(params_received)
        IN  /\ authorization_code_context.active
            /\ authorization_code_context.port = p
            /\ servers[p].thread = "serving"
            /\ ~servers[p].shutdown_request
            /\ DeliveredTotal < MaxRequests
            /\ servers' = [servers EXCEPT
                   ![p].thread = "in_callback",
                   ![p].results = update(servers[p].results, parameters),
                   ![p].delivered = Append(servers[p].delivered, parameters),
                   ![p].answered = Append(servers[p].answered,
                                          Answer(path, params_received))]
            /\ AuthFrame

\* AuthorizeResponseCallback.register_parameters: self.response.set()
response_set ==
    \E p \in Ports :
        /\ servers[p].thread = "in_callback"
        /\ servers' = [servers EXCEPT ![p].thread = "serving",
                                      ![p].response = TRUE]
        /\ AuthFrame

\* A slip at the end of serve_forever: the event the stopping thread waits
\* for is not set.
serve_forever_exit_no_event ==
    \E p \in Ports :
        /\ servers[p].thread = "serving"
        /\ servers[p].shutdown_request
        /\ servers' = [servers EXCEPT ![p].thread = "exited",
                                      ![p].shutdown_request = FALSE]
        /\ AuthFrame

\* serve_forever sees the shutdown request and leaves its loop; its finally
\* block resets the request and sets the event.
serve_forever_exit ==
    \E p \in Ports :
        /\ servers[p].thread = "serving"
        /\ servers[p].shutdown_request
        /\ servers' = [servers EXCEPT ![p].thread = "exited",
                                      ![p].shutdown_request = FALSE,
                                      ![p].is_shut_down = TRUE]
        /\ AuthFrame

\* Nothing closes the socket of a stopped server; it is released when the
\* server object, no longer referenced by a context or a thread, is
\* reclaimed.
reclaim ==
    \E p \in Ports :
        /\ servers[p].thread = "exited"
        /\ ~(authorization_code_context.active /\ authorization_code_context.port = p)
        /\ servers' = [servers EXCEPT ![p] = NoServer]
        /\ AuthFrame

(***************************************************************************)
(* read_request_parameters on its own                                      *)
(***************************************************************************)
MaxPathLen == 7
MaxValueLen == 2

\* What paths are made of, and the characters of parameter values.
Lexemes == {"?", "&", "=", "k", "%20"}
Characters == {"a", "~", " ", "=", "&", "%", "?", "<e-acute>"}

Paths == UNION { [1..n -> Lexemes] : n \in 0..MaxPathLen }
Values == UNION { [1..n -> Characters] : n \in 0..MaxValueLen }

NoParse ==
    [input |-> "none", done |-> FALSE, path |-> <<>>, value |-> <<>>,
     params_received |-> <<>>]

\* read_request_parameters(path)
read_path ==
    /\ parse.input = "path"
    /\ ~parse.done
    /\ parse' = [parse EXCEPT
                    !.done = TRUE,
                    !.params_received = read_request_parameters(parse.path)]
    /\ UNCHANGED <<_session, refresh_token, authorization_code_context,
                   servers, caller, last>>

\* read_request_parameters on a path whose query is "k=" followed by the
\* value as generate_authorize_url encodes one.
read_quoted ==
    /\ parse.input = "value"
    /\ ~parse.done
    /\ LET path == <<"/cb", "?", "k", "=">> \o quote(parse.value)
       IN  parse' = [parse EXCEPT
                       !.done = TRUE, !.path = path,
                       !.params_received = read_request_parameters(path)]
    /\ UNCHANGED <<_session, refresh_token, authorization_code_context,
                   servers, caller, last>>

(***************************************************************************)
(* Specifications                                                          *)
(***************************************************************************)
Init ==
    /\ _session = NoSession
    /\ refresh_token = None
    /\ authorization_code_context = NoContext
    /\ servers = [p \in Ports |-> NoServer]
    /\ caller = IdleCaller
    /\ last = NoRecord
    /\ parse = NoParse

\* A call of read_request_parameters, on any path or on an encoded value.
ParseInit ==
    /\ _session = NoSession
    /\ refresh_token = None
    /\ authorization_code_context = NoContext
    /\ servers = [p \in Ports |-> NoServer]
    /\ caller = IdleCaller
    /\ last = NoRecord
    /\ parse \in { [NoParse EXCEPT !.input = "path", !.path = path] :
                       path \in Paths }
               \cup { [NoParse EXCEPT !.input = "value", !.value = v] :
                       v \in Values }

ParseNext == read_path \/ read_quoted

ParseSpec == ParseInit /\ [][ParseNext]_vars

TokenNext ==
    \/ init_with_authorize_code
    \/ init_with_user_credentials
    \/ init_with_client_credentials
    \/ init_with_token
    \/ bearer_request

AuthNext ==
    \/ init_authorize_code_process
    \/ wait_call
    \/ wait_return
    \/ get_error
    \/ get_error_description
    \/ get_code
    \/ get_state
    \/ stop_http_server
    \/ wait_done
    \/ serve_forever
    \/ do_GET
    \/ response_set
    \/ serve_forever_exit
    \/ reclaim

\* The token lifecycle: grants and bearer requests.
TokenSpec == Init /\ [][TokenNext]_vars

\* The authorization-code flow and its callback servers.
AuthSpec == Init /\ [][AuthNext]_vars

\* A step of the thread that runs the server of port p: threading.Thread
\* runs serve_forever to its end, and a handler that started runs on.
serve(p) ==
    /\ serve_forever \/ response_set \/ serve_forever_exit
    /\ servers'[p] # servers[p]

\* The authorization-code flow with its threads scheduled: every server
\* thread that can take a step takes one, and the thread blocked in
\* httpd.shutdown() resumes once the event is set.
AuthFairSpec ==
    /\ AuthSpec
    /\ \A p \in Ports : WF_vars(serve(p))
    /\ WF_vars(wait_done)

\* A step of the thread that called wait_and_terminate_authorize_code_process,
\* from Event.wait to the return.
wait_and_terminate_authorize_code_process ==
    \/ wait_return
    \/ get_error \/ get_error_description \/ get_code \/ get_state
    \/ stop_http_server
    \/ wait_done

\* The authorization-code flow with all its threads scheduled: the server
\* threads, and the calling thread once it is inside the wait operation
\* (a timeout given to Event.wait elapses).
WaitFairSpec ==
    /\ AuthSpec
    /\ \A p \in Ports : WF_vars(serve(p))
    /\ WF_vars(wait_and_terminate_authorize_code_process)

Next == TokenNext \/ AuthNext \/ ParseNext

Spec == Init /\ [][Next]_vars

TypeOK ==
    /\ _session.exists \in BOOLEAN
    /\ caller.pc \in {"idle", "waiting", "get_error", "get_error_description",
                      "get_code", "get_state", "finally", "shutdown"}

(***************************************************************************)
(* Properties                                                              *)
(***************************************************************************)
WaitOp == "wait_and_terminate_authorize_code_process"

\* The dict after the parameters of a sequence of requests were registered.
RECURSIVE Merge(_)
Merge(delivered) ==
    IF delivered = <<>> THEN EmptyParameters
    ELSE update(Merge(SubSeq(delivered, 1, Len(delivered) - 1)),
                delivered[Len(delivered)])

\* A wait operation on an active context has completed, and every redirect
\* delivered so far had been delivered before the wait read the dict.
WaitedOn(delivered) ==
    /\ last.op = WaitOp
    /\ last.pre_context.active
    /\ last.seen = delivered
    /\ last.seen_end = delivered

\* C1: when the redirect parameters were delivered before the wait
\* operation read them, the operation raises OAuthError(401, error,
\* error_description) if error is present; else OAuthError(500,
\* invalid_state) if the state received differs from the context's; else
\* OAuthError(500, no_code) if code is absent; else it returns the code
\* received.
C1_WaitDecisionOrder ==
    (last.op = WaitOp /\ last.pre_context.active /\ last.seen # <<>>
        /\ last.seen_end = last.seen)
    => LET received == Merge(last.seen)
       IN  IF received.error # None
           THEN /\ last.exc.type = "OAuthError"
                /\ last.exc.status_code = 401
                /\ last.exc.error = received.error
                /\ last.exc.error_description =
                     (IF received.error_description = None THEN ""
                      ELSE received.error_description)
           ELSE IF received.state # last.pre_context.state
           THEN /\ last.exc.type = "OAuthError"
                /\ last.exc.status_code = 500
                /\ last.exc.error = "invalid_state"
           ELSE IF received.code = None
           THEN /\ last.exc.type = "OAuthError"
                /\ last.exc.status_code = 500
                /\ last.exc.error = "no_code"
           ELSE /\ last.exc = NoExc
                /\ last.code = received.code

\* C1, witness: one redirect with the context's state and a code was
\* delivered, and the wait returned that code.
C1_Witness ==
    /\ WaitedOn(<<Parameters(None, None, "c1", "S")>>)
    /\ last.exc = NoExc
    /\ last.code = "c1"

\* A bearer request got 401 invalid_token as its first response while a
\* refresh token was known.
ExpiredWithRefreshToken ==
    /\ last.op = "bearer_request"
    /\ Len(last.received) >= 1
    /\ last.received[1].status_code = 401
    /\ last.received[1].kind = "object"
    /\ last.received[1].error = "invalid_token"
    /\ last.pre.refresh_token # None

\* The requests of a sequence that went to the token endpoint.
TokenRequests(sent) == { i \in DOMAIN sent : sent[i].to = "token" }

ApiRequests(sent) == { i \in DOMAIN sent : sent[i].to = "api" }

\* C2 as stated: on 401 invalid_token with a known refresh token, the wrapper
\* makes exactly one token request, then exactly one retry, and returns the
\* retry's response.
C2_Original ==
    ExpiredWithRefreshToken
    => /\ Cardinality(TokenRequests(last.sent)) = 1
       /\ Cardinality(ApiRequests(last.sent)) = 2
       /\ last.exc = NoExc
       /\ last.value = last.received[Len(last.received)]

\* The token endpoint's answer lets a refresh succeed: 200 with a JSON object
\* that holds an access_token.
RefreshSucceeds(response) ==
    /\ response.status_code = 200
    /\ response.kind = "object"
    /\ response.access_token # None

\* C2, amended: on 401 invalid_token with a known refresh token, the wrapper
\* makes exactly one token request, as its second request; when that refresh
\* succeeds it retries the call exactly once and returns the retry's
\* response whatever its status, with no further refresh; when the refresh
\* raises, the exception reaches the caller and the call is not retried.
C2_RefreshThenRetryOnce ==
    ExpiredWithRefreshToken
    => /\ Len(last.sent) >= 2
       /\ TokenRequests(last.sent) = {2}
       /\ last.sent[2].credential = last.pre.refresh_token
       /\ IF RefreshSucceeds(last.received[2])
          THEN /\ ApiRequests(last.sent) = {1, 3}
               /\ last.exc = NoExc
               /\ last.value = last.received[3]
          ELSE /\ ApiRequests(last.sent) = {1}
               /\ last.exc # NoExc

\* C2, witness: the refresh succeeded and the retry got 401 invalid_token
\* again, which was returned.
C2_Witness ==
    /\ ExpiredWithRefreshToken
    /\ Len(last.sent) = 3
    /\ last.exc = NoExc
    /\ last.value.status_code = 401
    /\ last.value.error = "invalid_token"

\* C3 as stated: after a bearer request whose silent refresh got 401 from
\* the token endpoint, whatever the body, the session and the refresh token
\* are unset and an exception was raised.
C3_Original ==
    (last.op = "bearer_request" /\ Len(last.received) >= 2
        /\ last.received[2].status_code = 401)
    => /\ ~_session.exists
       /\ refresh_token = None
       /\ last.exc # NoExc

\* C4 as stated: a refresh-token grant that succeeds with a response lacking
\* refresh_token keeps the refresh token known before, in init_with_token
\* and in the silent refresh of a bearer request.
C4_Original ==
    /\ (last.op = "init_with_token" /\ last.exc = NoExc
           /\ last.received[1].refresh_token = None)
       => refresh_token = last.arg
    /\ (last.op = "bearer_request" /\ Len(last.received) = 3
           /\ last.received[2].refresh_token = None)
       => refresh_token = last.pre.refresh_token

\* The stopped servers: the accept loop has exited, or the server is gone.
Stopped(p) == servers[p].thread \in {"exited", "none"}

\* C5: once a wait operation on an active context has returned or raised,
\* the context's server is stopped and the manager holds no context; a wait
\* operation called without a context raises.
C5_WaitClearsContext ==
    last.op = WaitOp
    => IF last.pre_context.active
       THEN /\ ~authorization_code_context.active
            /\ Stopped(last.pre_context.port)
       ELSE /\ last.exc = PyError("Exception")
            /\ ~authorization_code_context.active

\* C5, witness: a wait operation raised (here for a wrong state) and left no
\* context and a stopped server.
C5_Witness ==
    /\ WaitedOn(<<Parameters(None, None, "c2", "X")>>)
    /\ last.exc.error = "invalid_state"
    /\ ~authorization_code_context.active
    /\ servers[last.pre_context.port].thread = "exited"

GrantOps ==
    {"init_with_authorize_code", "init_with_user_credentials",
     "init_with_client_credentials", "init_with_token"}

\* C6 as stated: a token request answered with a status other than 200 and a
\* JSON object raises OAuthError(status, body.error, body.error_description).
C6_Original ==
    (last.op \in GrantOps /\ last.received[1].status_code # 200
        /\ last.received[1].kind = "object")
    => last.exc = OAuthError(last.received[1].status_code,
                             last.received[1].error,
                             last.received[1].error_description)

\* C7 as stated: a token request answered with a status other than 200 and a
\* body that is no JSON raises OAuthError(status, unknown_error, raw text).
C7_Original ==
    (last.op \in GrantOps /\ last.received[1].status_code # 200
        /\ last.received[1].kind = "text")
    => last.exc = OAuthError(last.received[1].status_code, "unknown_error",
                             last.received[1].text)

\* C8 as stated: a bearer request made without a session raises
\* OAuthError(401, no_token) and sends nothing.
C8_Original ==
    (last.op = "bearer_request" /\ ~last.pre._session.exists)
    => /\ last.exc.type = "OAuthError"
       /\ last.exc.status_code = 401
       /\ last.exc.error = "no_token"
       /\ last.sent = <<>>

\* C9 as stated: a wait operation whose timeout elapsed before any redirect
\* was received raises TimeoutError.
C9_Original ==
    (last.op = WaitOp /\ last.pre_context.active /\ last.timed_out
        /\ last.seen_end = <<>>)
    => last.exc.type = "TimeoutError"

\* C10 as stated: init_authorize_code_process called while a context is
\* active raises, starts no server and keeps the context.
C10_Original ==
    (last.op = "init_authorize_code_process" /\ last.pre_context.active)
    => /\ last.exc # NoExc
       /\ authorization_code_context = last.pre_context

\* C11 as stated: the parameters the wait operation evaluates are those of
\* the first request its server received, whatever was received later.
C11_Original ==
    (last.op = WaitOp /\ last.pre_context.active /\ last.seen # <<>>)
    => last.read = last.seen[1]

\* C12 as stated: when the wait operation has returned or raised, the
\* listening socket of the context's server is closed.
C12_Original ==
    (last.op = WaitOp /\ last.pre_context.active)
    => servers[last.pre_context.port].socket = "closed"

\* A token request got 200 and a JSON object that holds an access_token and
\* no refresh_token.
GrantedWithoutRefreshToken ==
    /\ last.op \in GrantOps
    /\ last.received[1].status_code = 200
    /\ last.received[1].kind = "object"
    /\ last.received[1].access_token # None
    /\ last.received[1].refresh_token = None

\* C13: on a 200 response that lacks refresh_token, the client-credentials
\* grant returns and leaves the refresh token unset, and the
\* authorization-code and password grants raise a decoding failure
\* (KeyError).
C13_RefreshTokenMandatoryPerGrant ==
    GrantedWithoutRefreshToken
    => /\ last.op = "init_with_client_credentials"
          => (last.exc = NoExc /\ refresh_token = None)
       /\ last.op \in {"init_with_authorize_code", "init_with_user_credentials"}
          => last.exc = PyError("KeyError")

\* C13, witness: the authorization-code grant raised on such a response
\* while a refresh token of an earlier grant was known.
C13_Witness ==
    /\ GrantedWithoutRefreshToken
    /\ last.op = "init_with_authorize_code"
    /\ last.exc = PyError("KeyError")
    /\ last.pre.refresh_token # None

\* The response tells that the token has expired: 401, a JSON object, error
\* invalid_token.
TokenExpiry(response) ==
    /\ response.status_code = 401
    /\ response.kind = "object"
    /\ response.error = "invalid_token"

\* C14 as stated: a bearer request whose first response is no token-expiry
\* response, or that is made while no refresh token is known, returns that
\* response, makes no other request, raises nothing and leaves the tokens.
C14_Original ==
    (last.op = "bearer_request" /\ Len(last.received) >= 1
        /\ (~TokenExpiry(last.received[1]) \/ last.pre.refresh_token = None))
    => /\ last.exc = NoExc
       /\ last.value = last.received[1]
       /\ Len(last.sent) = 1
       /\ Manager = last.pre

\* C15 as stated: when the silent refresh of a bearer request fails with
\* anything but an OAuthError of status 401, the error reaches the caller
\* and the session and the refresh token are what they were.
C15_Original ==
    (last.op = "bearer_request" /\ Len(last.received) = 2
        /\ ~(last.exc.type = "OAuthError" /\ last.exc.status_code = 401))
    => /\ last.exc # NoExc
       /\ Manager = last.pre

\* A token request that returned after a 200 response with access_token.
Granted(response, exc) ==
    /\ response.status_code = 200
    /\ response.kind = "object"
    /\ response.access_token # None
    /\ exc = NoExc

\* C16 as stated: after a token request that got 200 with access_token T,
\* the empty string included, the manager's access token is T.
C16_Original ==
    /\ (last.op \in GrantOps /\ Granted(last.received[1], last.exc))
       => _access_token(_session) = last.received[1].access_token
    /\ (last.op = "bearer_request" /\ Len(last.received) = 3)
       => /\ _access_token(_session) = last.received[2].access_token
          /\ last.sent[3].credential = last.received[2].access_token

\* C16, amended: after a token request that got 200 with a non-empty
\* access_token T and returned, the manager's access token is T, whether or
\* not a session existed, and the bearer request made next (the retry after
\* a silent refresh) carries T; an empty access_token is not stored: the
\* Authorization header keeps the value it had, none on a new session.
C16_AccessTokenStored ==
    LET stored(response, before) ==
            IF response.access_token # ""
            THEN _access_token(_session) = response.access_token
            ELSE _access_token(_session) = _access_token(before)
    IN  /\ (last.op \in GrantOps /\ Granted(last.received[1], last.exc))
           => stored(last.received[1], last.pre._session)
        /\ (last.op = "bearer_request" /\ Len(last.received) = 3)
           => /\ stored(last.received[2], last.pre._session)
              /\ last.sent[3].credential = _access_token(_session)

\* C16, witness: a grant on an existing session that held a1 got a2, and a2
\* is the manager's access token.
C16_Witness ==
    /\ last.op \in GrantOps
    /\ Granted(last.received[1], last.exc)
    /\ _access_token(last.pre._session) = "a1"
    /\ last.received[1].access_token = "a2"
    /\ _access_token(_session) = "a2"

InitOp == "init_authorize_code_process"

\* C19: a call of init_authorize_code_process with an https redirect URI
\* raises NotImplementedError, a call whose port is held by a listening
\* socket raises the OSError of bind, and a call that raises one of them
\* starts no server and leaves the manager's context as it was.
C19_FailedInitLeavesContext ==
    [][ (last'.op = InitOp /\ last' # last)
        => /\ last'.uri.scheme = "https"
              => last'.exc = PyError("NotImplementedError")
           /\ (last'.uri.scheme = "http" /\ last'.uri.port # NoPort
                  /\ servers[last'.uri.port].socket = "open")
              => last'.exc = PyError("OSError")
           /\ last'.exc.type \in {"NotImplementedError", "OSError"}
              => /\ servers' = servers
                 /\ authorization_code_context' = authorization_code_context
      ]_vars

\* C19, witness: with a context on a port, a second call on the same port
\* raised OSError and the context is the one held before.
C19_Witness ==
    /\ last.op = InitOp
    /\ last.exc = PyError("OSError")
    /\ last.pre_context.active
    /\ authorization_code_context = last.pre_context

\* C20 as stated: with a non-https redirect URI that names no port, the call
\* starts the server on port 80 and returns; with a port, the server is
\* started on that port.
C20_Original ==
    (last.op = InitOp /\ last.uri.scheme = "http")
    => IF last.uri.port = NoPort
       THEN /\ last.exc = NoExc
            /\ authorization_code_context.active
            /\ authorization_code_context.port = 80
       ELSE last.exc = NoExc
            => /\ authorization_code_context.active
               /\ authorization_code_context.port = last.uri.port

\* The dict a path is to give, written out for the paths of the model.
ExpectedParameters(path) ==
    CASE path = <<"/cb", "?", "code", "=", "c1", "&", "state", "=", "S">> ->
           [code |-> "c1", state |-> "S"]
      [] path = <<"/cb", "?", "state", "=", "X", "&", "code", "=", "c2", "&", "junk">> ->
           [code |-> "c2", state |-> "X"]
      [] path = <<"/cb", "?", "state", "=", "S", "&", "code", "=", "c", "=", "1">> ->
           [state |-> "S"]
      [] path = <<"/cb", "?", "error", "=", "access_denied", "&", "error_description",
                  "=", "den", "%69", "ed", "&", "state", "=", "S">> ->
           [error |-> "access_denied", error_description |-> "denied", state |-> "S"]
      [] path = <<"/">> -> <<>>

\* C18: every GET request a server accepted, with or without a query
\* string, was answered 200 with Content-type text/plain and a body that
\* starts with "Response received" and holds the parsed parameters, and the
\* callback was called once for it, with the parsed parameters, after the
\* body was written.
C18_GetAnsweredThenCallback ==
    \A p \in Ports :
        /\ Len(servers[p].answered) = Len(servers[p].delivered)
        /\ \A i \in DOMAIN servers[p].answered :
            LET a == servers[p].answered[i]
            IN  /\ a.status = 200
                /\ a.content_type = "text/plain"
                /\ a.body[1] = "Response received"
                /\ a.body[2] = ExpectedParameters(a.path)
                /\ a.callback = <<ExpectedParameters(a.path)>>
                /\ a.events = <<"write", "callback", "flush">>
                /\ servers[p].delivered[i] = ToParameters(ExpectedParameters(a.path))

\* C18, witness: a server answered a request without a query string and one
\* whose query has a pair with two "=".
C18_Witness ==
    \E p \in Ports :
        /\ Len(servers[p].answered) = 2
        /\ servers[p].answered[1].path = <<"/">>
        /\ servers[p].answered[2].path =
             <<"/cb", "?", "state", "=", "S", "&", "code", "=", "c", "=", "1">>
        /\ servers[p].results = Parameters(None, None, None, "S")

\* C17: stop_http_server, once called, returns, whatever number of requests
\* the server received and whether or not its thread had entered
\* serve_forever; it returns only when the loop of its server has exited
\* with no request in progress, and a server whose loop has exited handles
\* and delivers no request.
C17_StopTerminates ==
    /\ (caller.pc = "shutdown") ~> (caller.pc = "idle")
    /\ [][ /\ (caller.pc = "shutdown" /\ caller'.pc # "shutdown")
              => /\ caller'.pc = "idle"
                 /\ context_server.thread = "exited"
                 /\ ~context_server.shutdown_request
           /\ \A p \in Ports :
                 servers[p].thread = "exited"
                 => \/ servers'[p] = servers[p]
                    \/ servers'[p] = NoServer
         ]_vars

\* C17, witness: a stop that was called before the thread of the server
\* entered serve_forever, no request received.
C17_Witness ==
    /\ caller.pc = "shutdown"
    /\ context_server.thread = "created"
    /\ context_server.delivered = <<>>

\* The response to the token request of the last operation: the only
\* request of a grant, the second of a bearer request that refreshed.
TokenResponse ==
    IF last.op \in GrantOps THEN last.received[1] ELSE last.received[2]

\* C24 as stated: a token request answered 200 with a JSON object without
\* access_token raises and leaves the access token and the refresh token
\* what they were.
C24_Original ==
    (/\ \/ last.op \in GrantOps
        \/ last.op = "bearer_request" /\ Len(last.received) >= 2
     /\ TokenResponse.status_code = 200
     /\ TokenResponse.kind = "object"
     /\ TokenResponse.access_token = None)
    => /\ last.exc # NoExc
       /\ Manager = last.pre

\* C23 as stated: a code the wait operation returns was carried by one of
\* the requests its server received, together with the context's state and
\* without an error.
C23_Original ==
    (last.op = WaitOp /\ last.pre_context.active /\ last.exc = NoExc)
    => \E i \in DOMAIN last.seen_end :
          /\ last.seen_end[i].code = last.code
          /\ last.seen_end[i].state = last.pre_context.state
          /\ last.seen_end[i].error = None

\* The ports on which a callback server of the manager is running: its
\* thread was started and has not left serve_forever.
Running == { p \in Ports : ~Stopped(p) }

\* C25 as stated: at most one callback server of the manager is running,
\* and none is while the manager holds no context.
C25_Original ==
    /\ Cardinality(Running) <= 1
    /\ ~authorization_code_context.active => Running = {}

\* C21: a wait without timeout leaves Event.wait only with the event set,
\* and the event of a context is set only after its server received a
\* request; once the server of the context has received a request, before
\* or after the wait was called, the wait operation comes to its end.
C21_WaitUntilCallback ==
    /\ [][ (caller.pc = "waiting" /\ ~caller.timeout /\ caller'.pc # "waiting")
           => /\ context_server.response
              /\ context_server.delivered # <<>> ]_vars
    /\ (caller.pc = "waiting" /\ ~caller.timeout
           /\ context_server.delivered # <<>>)
       ~> (caller.pc = "idle" /\ last.op = WaitOp)

\* C21, witness: a wait without timeout, called after the request was
\* handled, has left Event.wait and read the code.
C21_Witness ==
    /\ caller.pc = "finally"
    /\ caller.set_at_call
    /\ caller.exc = NoExc
    /\ caller.code = "c1"

\* The positions of the path that cut its query into segments: the first
\* "?", every "&" after it, and the end.
Cuts(path) ==
    LET q == CHOOSE i \in 1..Len(path) :
                 path[i] = "?" /\ \A j \in 1..(i - 1) : path[j] # "?"
    IN  {q} \cup { i \in (q + 1)..Len(path) : path[i] = "&" } \cup {Len(path) + 1}

\* The segments, as pairs of neighbouring cuts, that hold exactly one "=".
Pairs(path) ==
    { s \in Cuts(path) \X Cuts(path) :
        /\ s[1] < s[2]
        /\ \A c \in Cuts(path) : ~(s[1] < c /\ c < s[2])
        /\ Cardinality({ i \in (s[1] + 1)..(s[2] - 1) : path[i] = "=" }) = 1 }

EqualSign(path, s) == CHOOSE i \in (s[1] + 1)..(s[2] - 1) : path[i] = "="

Key(path, s) == text(SubSeq(path, s[1] + 1, EqualSign(path, s) - 1))

\* C22: read_request_parameters gives the empty mapping for a path without
\* "?" or with nothing after the first "?"; else its keys are those of the
\* "&"-separated segments with exactly one "=", each mapped to the decoded
\* value of the last such segment with that key, and nothing else.  A value
\* encoded by quote with the safe set of the authorize URL is read back
\* unchanged.
C22_ReadRequestParameters ==
    /\ (parse.done /\ parse.input = "path")
       => LET path == parse.path
              params_received == parse.params_received
          IN  IF \A i \in 1..(Len(path) - 1) : path[i] # "?"
              THEN DOMAIN params_received = {}
              ELSE /\ DOMAIN params_received =
                        { Key(path, s) : s \in Pairs(path) }
                   /\ \A s \in Pairs(path) :
                        (\A t \in Pairs(path) :
                            Key(path, t) = Key(path, s) => t[1] <= s[1])
                        => params_received[Key(path, s)] =
                             unquote(SubSeq(path, EqualSign(path, s) + 1, s[2] - 1))
    /\ (parse.done /\ parse.input = "value")
       => /\ DOMAIN parse.params_received = {"k"}
          /\ parse.params_received["k"] = text(parse.value)

\* C22, witness: a path with two segments of the same key, read with the
\* value of the second.
C22_Witness ==
    /\ parse.done
    /\ parse.path = <<"?", "k", "=", "&", "k", "=", "k">>
    /\ DOMAIN parse.params_received = {"k"}
    /\ parse.params_received["k"] = "k"

====
